---- MODULE Spec2Model ----
(***************************************************************************)
(* Model of blogango/models.py: the BlogEntry save pipeline (title and     *)
(* slug derivation, slug uniqueness probe, summary and meta defaults,      *)
(* created_on fix-up), the Comment moderation gate and the comment query   *)
(* helpers, and the Blog singleton guard.                                  *)
(*                                                                         *)
(* Strings are sequences of one-character strings.  Timestamps are         *)
(* natural numbers (ticks); None is the value NoneVal.  Rows carry the     *)
(* fields that save() and the query helpers read or write; fields that are *)
(* only stored (created_by, is_page, tags, user_name, email_id, ...) are   *)
(* left out.  Rows are never deleted, so a new row's primary key is the    *)
(* number of rows plus one.                                                *)
(***************************************************************************)
EXTENDS Integers, Sequences, FiniteSets, TLC

\* ------------------------------------------------------------------ bounds
MaxEntries == 2
MaxPubEntries == 2
MaxNow == 2
MaxComments == 3
MaxBlogs == 2
NumProcs == 2

\* --------------------------------------------------------------- constants
NoneVal == -1
TitleWords == 5
SummaryWords == 100
SentinelYear == 9999
Year9999Start == 1000
DatetimeMax == 1001
TicksPerDay == 2

Procs == 1..NumProcs
Blank == << >>

\* ----------------------------------------------------------------- strings
IsSpace(c) == c = " "

\* str.split(): the maximal runs of non-whitespace characters, in order
Split(s) ==
    LET starts == {i \in 1..Len(s) : ~IsSpace(s[i]) /\ (i = 1 \/ IsSpace(s[i - 1]))}
        ends == {j \in 1..Len(s) : ~IsSpace(s[j]) /\ (j = Len(s) \/ IsSpace(s[j + 1]))}
        nth(S, k) == CHOOSE i \in S : Cardinality({j \in S : j < i}) = k - 1
    IN [k \in 1..Cardinality(starts) |-> SubSeq(s, nth(starts, k), nth(ends, k))]

RECURSIVE Join(_, _)
\* sep.join(ws), built by halves
Join(sep, ws) ==
    IF ws = << >> THEN Blank
    ELSE IF Len(ws) = 1 THEN ws[1]
    ELSE LET h == Len(ws) \div 2
         IN Join(sep, SubSeq(ws, 1, h)) \o sep \o Join(sep, SubSeq(ws, h + 1, Len(ws)))

Take(ws, n) == SubSeq(ws, 1, IF Len(ws) < n THEN Len(ws) ELSE n)

InferTitleOrSlug(text) == Join(<<"-">>, Take(Split(text), TitleWords))

GenerateSummary(text) == Join(<<" ">>, Take(Split(text), SummaryWords))

Lower(c) == CASE c = "H" -> "h" [] c = "W" -> "w" [] OTHER -> c

IsSlugChar(c) == c \notin {"!"}

IsDashOrSpace(c) == c \in {"-", " "}

RECURSIVE Strip(_)
Strip(s) ==
    IF s = Blank THEN s
    ELSE IF IsSpace(s[1]) THEN Strip(Tail(s))
    ELSE IF IsSpace(s[Len(s)]) THEN Strip(SubSeq(s, 1, Len(s) - 1))
    ELSE s

RECURSIVE Collapse(_)
Collapse(s) ==
    IF s = Blank THEN s
    ELSE IF IsDashOrSpace(s[1])
         THEN IF Len(s) > 1 /\ IsDashOrSpace(s[2])
              THEN Collapse(Tail(s))
              ELSE <<"-">> \o Collapse(Tail(s))
         ELSE <<s[1]>> \o Collapse(Tail(s))

\* django slugify: drop characters outside [\w\s-], strip, lowercase,
\* replace each run of hyphens and whitespace by one hyphen
Slugify(v) ==
    LET kept == SelectSeq(v, IsSlugChar)
        stripped == Strip(kept)
        lowered == [k \in 1..Len(stripped) |-> Lower(stripped[k])]
    IN Collapse(lowered)

RECURSIVE Digits(_)
Digits(n) == IF n < 10 THEN <<ToString(n)>>
             ELSE Digits(n \div 10) \o <<ToString(n % 10)>>

create_slug(initial_slug, i) ==
    IF i # 1 THEN initial_slug \o <<"-">> \o Digits(i) ELSE initial_slug

Year(d) == IF d >= Year9999Start THEN SentinelYear ELSE 2000

\* ------------------------------------------------------------------ inputs
HelloWorld == <<"H","e","l","l","o"," ","W","o","r","l","d","!">>
HelloWorldSlug2 == <<"h","e","l","l","o","-","w","o","r","l","d","-","2">>
ShortText == <<"a"," "," ","b"," ","c"," ","d"," ","e"," ","f"," ","g">>
HelloText == <<" ","H","e","l","l","o"," "," ","W","o","r","l","d"," ">>
Custom == <<"k","w">>


EntryForms ==
    { [title |-> HelloWorld, slug |-> Blank, text |-> ShortText,
       summary |-> Blank, meta_keywords |-> Blank, meta_description |-> Blank],
      [title |-> Blank, slug |-> Blank, text |-> HelloText,
       summary |-> Blank, meta_keywords |-> Custom, meta_description |-> Blank],
      [title |-> HelloWorld, slug |-> HelloWorldSlug2, text |-> ShortText,
       summary |-> Custom, meta_keywords |-> Blank, meta_description |-> Blank] }

PublishForms == {f \in EntryForms : f.slug = Blank /\ f.title # Blank}

Titles == {Custom}

SlugDates == {1}

PublishDates == {NoneVal, 1, 2, Year9999Start}

\* ------------------------------------------------------------------- state
VARIABLES
    now,        \* datetime.now()
    entries,    \* BlogEntry table: pk -> row
    eprocs,     \* in-flight BlogEntry.save calls of concurrent requests
    comments,   \* Comment table: pk -> row
    blogs,      \* Blog table: id -> row
    bprocs      \* in-flight Blog.save calls of concurrent requests

vars == <<now, entries, eprocs, comments, blogs, bprocs>>

\* ------------------------------------------------------------- BlogEntry
\* BlogEntry(...) before its first save: created_on defaults to datetime.max
NewEntry(f, p, d) ==
    [title |-> f.title, slug |-> f.slug, text |-> f.text, summary |-> f.summary,
     meta_keywords |-> f.meta_keywords, meta_description |-> f.meta_description,
     is_published |-> p, publish_date |-> d, created_on |-> DatetimeMax]

\* BlogEntry.objects: rows with is_published and publish_date <= now
BlogPublishedManager(store, t) ==
    {pk \in DOMAIN store :
        /\ store[pk].is_published
        /\ store[pk].publish_date # NoneVal
        /\ store[pk].publish_date <= t}

\* BlogEntry.objects.filter(slug__exact=created_slug).exclude(pk=self.pk)
slug_count(store, t, created_slug, pk) ==
    {q \in BlogPublishedManager(store, t) \ {pk} : store[q].slug = created_slug}

DeriveTitleSlug(obj) ==
    LET o1 == IF obj.title = Blank
              THEN [obj EXCEPT !.title = InferTitleOrSlug(obj.text)] ELSE obj
    IN IF o1.slug = Blank THEN [o1 EXCEPT !.slug = Slugify(o1.title)] ELSE o1

RECURSIVE ProbeSlug(_, _, _, _, _)
ProbeSlug(store, t, slug, pk, i) ==
    IF slug_count(store, t, create_slug(slug, i), pk) = {}
    THEN create_slug(slug, i)
    ELSE ProbeSlug(store, t, slug, pk, i + 1)

FixCreatedOnAlways(obj) ==
    IF obj.is_published THEN [obj EXCEPT !.created_on = obj.publish_date] ELSE obj

FixCreatedOn(obj) ==
    IF obj.is_published /\ Year(obj.created_on) = SentinelYear
    THEN [obj EXCEPT !.created_on = obj.publish_date] ELSE obj

DeriveRest(obj) ==
    LET o1 == IF obj.summary = Blank
              THEN [obj EXCEPT !.summary = GenerateSummary(obj.text)] ELSE obj
        o2 == IF o1.meta_keywords = Blank
              THEN [o1 EXCEPT !.meta_keywords = o1.summary] ELSE o1
        o3 == IF o2.meta_description = Blank
              THEN [o2 EXCEPT !.meta_description = o2.summary] ELSE o2
    IN FixCreatedOn(o3)

\* models.Model.save: created_on is a NOT NULL column, so a row whose
\* created_on is None is rejected; a new row gets the next pk
StorageSave(store, pk, obj) ==
    IF obj.created_on = NoneVal THEN store
    ELSE LET k == IF pk = NoneVal THEN Cardinality(DOMAIN store) + 1 ELSE pk
         IN [q \in DOMAIN store \cup {k} |-> IF q = k THEN obj ELSE store[q]]

BlogEntrySave(store, t, pk, obj) ==
    LET o1 == DeriveTitleSlug(obj)
        o2 == [o1 EXCEPT !.slug = ProbeSlug(store, t, o1.slug, pk, 1)]
    IN StorageSave(store, pk, DeriveRest(o2))

CreateEntry(f, p, d) ==
    /\ Cardinality(DOMAIN entries) < MaxEntries
    /\ entries' = BlogEntrySave(entries, now, NoneVal, NewEntry(f, p, d))
    /\ UNCHANGED <<now, eprocs, comments, blogs, bprocs>>

ResaveEntry(pk, t, p, d) ==
    /\ pk \in DOMAIN entries
    /\ entries' = BlogEntrySave(entries, now, pk,
                     [entries[pk] EXCEPT !.title = t, !.is_published = p,
                                         !.publish_date = d])
    /\ UNCHANGED <<now, eprocs, comments, blogs, bprocs>>

Tick ==
    /\ now < MaxNow
    /\ now' = now + 1
    /\ UNCHANGED <<entries, eprocs, comments, blogs, bprocs>>

IdleBlogProc == [pc |-> "idle", id |-> NoneVal, obj |-> << >>]

IdleEntryProc == [pc |-> "idle", obj |-> NewEntry(CHOOSE f \in EntryForms : TRUE, FALSE, NoneVal), i |-> 1]

Init ==
    /\ now = 0
    /\ entries = << >>
    /\ eprocs = [p \in Procs |-> IdleEntryProc]
    /\ comments = << >>
    /\ blogs = << >>
    /\ bprocs = [p \in Procs |-> IdleBlogProc]

CreateEntryStep == \E f \in EntryForms, p \in BOOLEAN, d \in SlugDates : CreateEntry(f, p, d)

ResaveEntryStep ==
    \E pk \in DOMAIN entries :
        \E t \in Titles \cup {entries[pk].title}, p \in BOOLEAN, d \in SlugDates :
            ResaveEntry(pk, t, p, d)

NextEntries == CreateEntryStep \/ ResaveEntryStep \/ Tick

\* sequential saves of entries, publication flag and title varying
SpecEntries == Init /\ [][NextEntries]_vars

PublishCreateStep ==
    /\ Cardinality(DOMAIN entries) < MaxPubEntries
    /\ \E f \in PublishForms, p \in BOOLEAN, d \in PublishDates : CreateEntry(f, p, d)

PublishResaveStep ==
    \E pk \in DOMAIN entries :
        \E p \in BOOLEAN, d \in PublishDates : ResaveEntry(pk, entries[pk].title, p, d)

NextPublish == PublishCreateStep \/ PublishResaveStep

\* sequential saves of entries, publication flag and publish_date varying;
\* the created_on fix-up of lines 108-111 does not read the clock
SpecPublish == Init /\ [][NextPublish]_vars

\* ------------------------------------------- BlogEntry, concurrent requests
\* lines 86-92 of a request creating a published entry dated now
EntryBegin(p, f) ==
    /\ eprocs[p].pc = "idle"
    /\ Cardinality(DOMAIN entries) + Cardinality({q \in Procs : eprocs[q].pc # "idle"}) < MaxEntries
    /\ eprocs' = [eprocs EXCEPT ![p] =
                    [pc |-> "probe", obj |-> DeriveTitleSlug(NewEntry(f, TRUE, 0)), i |-> 1]]
    /\ UNCHANGED <<now, entries, comments, blogs, bprocs>>

\* one iteration of the loop of lines 93-98; on exit lines 99-111
EntryProbe(p) ==
    /\ eprocs[p].pc = "probe"
    /\ LET created_slug == create_slug(eprocs[p].obj.slug, eprocs[p].i)
       IN IF slug_count(entries, now, created_slug, NoneVal) = {}
          THEN eprocs' = [eprocs EXCEPT ![p].pc = "write",
                             ![p].obj = DeriveRest([eprocs[p].obj EXCEPT !.slug = created_slug])]
          ELSE eprocs' = [eprocs EXCEPT ![p].i = eprocs[p].i + 1]
    /\ UNCHANGED <<now, entries, comments, blogs, bprocs>>

\* line 113
EntryWrite(p) ==
    /\ eprocs[p].pc = "write"
    /\ entries' = StorageSave(entries, NoneVal, eprocs[p].obj)
    /\ eprocs' = [eprocs EXCEPT ![p] = IdleEntryProc]
    /\ UNCHANGED <<now, comments, blogs, bprocs>>

EntryBeginStep == \E p \in Procs, f \in EntryForms : EntryBegin(p, f)

EntryProbeStep == \E p \in Procs : EntryProbe(p)

EntryWriteStep == \E p \in Procs : EntryWrite(p)

NextEntriesConc == EntryBeginStep \/ EntryProbeStep \/ EntryWriteStep

SpecEntriesConc == Init /\ [][NextEntriesConc]_vars

\* ---------------------------------------------------------------- Comment
NullBooleans == {"True", "False", "None"}

CommentTexts == {<<"o","k">>}

SaveGateOff(obj) == obj

\* Comment.save, lines 186-187
SaveGate(obj) == IF obj.is_spam THEN [obj EXCEPT !.is_public = "False"] ELSE obj

\* Comment.save; created_on is auto_now_add: set when the row is inserted
CommentSave(store, t, pk, obj) ==
    LET o == SaveGate(obj)
        k == IF pk = NoneVal THEN Cardinality(DOMAIN store) + 1 ELSE pk
        row == IF pk = NoneVal THEN [o EXCEPT !.created_on = t] ELSE o
    IN [q \in DOMAIN store \cup {k} |-> IF q = k THEN row ELSE store[q]]

AllComments(store) == DOMAIN store

\* Comment.objects: rows with is_public = True
CommentManager(store) == {pk \in DOMAIN store : store[pk].is_public = "True"}

get_num_comments(store, e) ==
    Cardinality({pk \in CommentManager(store) :
                    store[pk].comment_for = e /\ ~store[pk].is_spam})

RecentSet(store, t, e) ==
    {pk \in CommentManager(store) :
        /\ store[pk].comment_for = e
        /\ ~store[pk].is_spam
        /\ store[pk].created_on > t - TicksPerDay}

has_recent_comments(store, t, e) == RecentSet(store, t, e) # {}

RECURSIVE OrderByAsc(_, _)
OrderByAsc(store, S) ==
    IF S = {} THEN << >>
    ELSE LET m == CHOOSE x \in S : \A y \in S :
                     \/ store[x].created_on < store[y].created_on
                     \/ store[x].created_on = store[y].created_on /\ x <= y
         IN <<m>> \o OrderByAsc(store, S \ {m})

RECURSIVE OrderByDesc(_, _)
\* order_by('-created_on'); rows with equal created_on in primary-key order
OrderByDesc(store, S) ==
    IF S = {} THEN << >>
    ELSE LET m == CHOOSE x \in S : \A y \in S :
                     \/ store[x].created_on > store[y].created_on
                     \/ store[x].created_on = store[y].created_on /\ x <= y
         IN <<m>> \o OrderByDesc(store, S \ {m})

get_recent_comments(store, t, e) == OrderByDesc(store, RecentSet(store, t, e))

CreateComment(e, txt, spam, pub) ==
    /\ e \in DOMAIN entries
    /\ Cardinality(DOMAIN comments) < MaxComments
    /\ comments' = CommentSave(comments, now, NoneVal,
                      [text |-> txt, comment_for |-> e, created_on |-> NoneVal,
                       is_spam |-> spam, is_public |-> pub])
    /\ UNCHANGED <<now, entries, eprocs, blogs, bprocs>>

\* moderation: a stored comment is loaded, its flags are set, and it is saved
ModerateComment(pk, spam, pub) ==
    /\ pk \in DOMAIN comments
    /\ comments' = CommentSave(comments, now, pk,
                      [comments[pk] EXCEPT !.is_spam = spam, !.is_public = pub])
    /\ UNCHANGED <<now, entries, eprocs, blogs, bprocs>>

CreateCommentStep ==
    \E e \in DOMAIN entries, txt \in CommentTexts, spam \in BOOLEAN, pub \in NullBooleans :
        CreateComment(e, txt, spam, pub)

ModerateCommentStep ==
    \E pk \in DOMAIN comments, spam \in BOOLEAN, pub \in NullBooleans :
        ModerateComment(pk, spam, pub)

\* two published entries saved one after the other
SeedEntries ==
    LET f == CHOOSE g \in PublishForms : TRUE
        s1 == BlogEntrySave(<< >>, 0, NoneVal, NewEntry(f, TRUE, 0))
    IN BlogEntrySave(s1, 0, NoneVal, NewEntry(f, TRUE, 0))

InitComments ==
    /\ now = 0
    /\ entries = SeedEntries
    /\ eprocs = [p \in Procs |-> IdleEntryProc]
    /\ comments = << >>
    /\ blogs = << >>
    /\ bprocs = [p \in Procs |-> IdleBlogProc]

NextComments == CreateCommentStep \/ ModerateCommentStep \/ Tick

SpecComments == InitComments /\ [][NextComments]_vars

\* ------------------------------------------------------------------- Blog
BlogForms ==
    { [title |-> <<"B">>, tag_line |-> <<"t">>, entries_per_page |-> 10,
       recents |-> 5, recent_comments |-> 5],
      [title |-> <<"C">>, tag_line |-> <<"t">>, entries_per_page |-> 20,
       recents |-> 5, recent_comments |-> 5] }

NeverRejected(store, id) == FALSE

\* the condition of line 37
Rejected(store, id) == Cardinality(DOMAIN store) = 1 /\ id = NoneVal

\* Blog.save up to line 38, called on a new Blog (id None) or on a loaded one
BlogCheck(p, id, f) ==
    /\ bprocs[p].pc # "write"
    /\ id = NoneVal \/ id \in DOMAIN blogs
    /\ bprocs' = [bprocs EXCEPT ![p] =
                    [pc |-> IF Rejected(blogs, id) THEN "raised" ELSE "write",
                     id |-> id, obj |-> f]]
    /\ UNCHANGED <<now, entries, eprocs, comments, blogs>>

\* line 40: insert a row under a fresh id, or update the row of the id
BlogWrite(p) ==
    /\ bprocs[p].pc = "write"
    /\ bprocs[p].id = NoneVal => Cardinality(DOMAIN blogs) < MaxBlogs
    /\ LET k == IF bprocs[p].id = NoneVal THEN Cardinality(DOMAIN blogs) + 1
                ELSE bprocs[p].id
       IN /\ blogs' = [q \in DOMAIN blogs \cup {k} |->
                          IF q = k THEN bprocs[p].obj ELSE blogs[q]]
          /\ bprocs' = [bprocs EXCEPT ![p] = [pc |-> "saved", id |-> k, obj |-> bprocs[p].obj]]
    /\ UNCHANGED <<now, entries, eprocs, comments>>

BlogCheckStep ==
    \E p \in Procs, id \in {NoneVal} \cup DOMAIN blogs, f \in BlogForms : BlogCheck(p, id, f)

BlogWriteStep == \E p \in Procs : BlogWrite(p)

NextBlog == BlogCheckStep \/ BlogWriteStep

SpecBlog == Init /\ [][NextBlog]_vars

Next == NextEntries \/ NextPublish \/ NextEntriesConc \/ NextComments \/ NextBlog

Spec == Init /\ [][Next]_vars

\* ================================================================== claims

\* C1: after any sequence of BlogEntry.save operations no two distinct
\* stored entries have the same slug.
C1_UniqueSlugs ==
    \A a, b \in DOMAIN entries : a # b => entries[a].slug # entries[b].slug

\* C2: when the saves of two new published entries with the same base slug
\* interleave, the two entries are never both stored with the same slug.
C2_ConcurrentUniqueSlugs ==
    \A a, b \in BlogPublishedManager(entries, now) :
        a # b => entries[a].slug # entries[b].slug

SlugInUse(store, s) == \E q \in DOMAIN store : store[q].slug = s

RECURSIVE LowestSuffixed(_, _, _)
LowestSuffixed(store, s, n) ==
    IF ~SlugInUse(store, s \o <<"-">> \o Digits(n))
    THEN s \o <<"-">> \o Digits(n)
    ELSE LowestSuffixed(store, s, n + 1)

ExpectedSlug(store, s) == IF ~SlugInUse(store, s) THEN s ELSE LowestSuffixed(store, s, 2)

\* C3: a new entry saved with a blank slug and slugified title s is stored
\* with slug s if no other entry has slug s, and otherwise with s-N for the
\* smallest N >= 2 such that no other entry has slug s-N.
C3_LowestFreeSlug ==
    [][\A f \in EntryForms, p \in BOOLEAN, d \in SlugDates :
          (f.slug = Blank /\ CreateEntry(f, p, d) /\ entries' # entries) =>
              LET k == Cardinality(DOMAIN entries) + 1
              IN entries'[k].slug = ExpectedSlug(entries, Slugify(entries'[k].title))]_vars

\* C4: re-saving a stored entry without changing its title does not change
\* its slug.
C4_ResaveKeepsSlug ==
    [][\A pk \in DOMAIN entries :
          entries'[pk].title = entries[pk].title => entries'[pk].slug = entries[pk].slug]_vars

\* C5: every stored comment with is_spam has is_public = False, and
\* Comment.objects lists no comment whose is_public is False.
C5_SpamNeverPublic ==
    /\ \A pk \in DOMAIN comments : comments[pk].is_spam => comments[pk].is_public = "False"
    /\ \A pk \in CommentManager(comments) : comments[pk].is_public # "False"

C5_Witness ==
    /\ \E pk \in DOMAIN comments : comments[pk].is_spam /\ comments[pk].is_public = "False"
    /\ \E pk \in CommentManager(comments) : ~comments[pk].is_spam

\* C6 (as stated): once an entry has been saved published, later saves leave
\* its created_on unchanged.
C6_CreatedOnNeverChanges ==
    [][\A pk \in DOMAIN entries :
          entries[pk].is_published => entries'[pk].created_on = entries[pk].created_on]_vars

\* C6 (amended): a save with is_published of an entry whose created_on is
\* datetime.max stores created_on = publish_date, and a created_on whose year
\* is not 9999 is never changed by a later save.
C6_CreatedOnFixedOnce ==
    [][\A pk \in DOMAIN entries' :
          LET before == IF pk \in DOMAIN entries THEN entries[pk].created_on ELSE DatetimeMax
              saved == pk \notin DOMAIN entries \/ entries'[pk] # entries[pk]
          IN /\ (saved /\ before = DatetimeMax /\ entries'[pk].is_published) =>
                    entries'[pk].created_on = entries'[pk].publish_date
             /\ (pk \in DOMAIN entries /\ Year(entries[pk].created_on) # SentinelYear) =>
                    entries'[pk].created_on = entries[pk].created_on]_vars

C6_Witness ==
    \E pk \in DOMAIN entries :
        /\ entries[pk].is_published
        /\ entries[pk].created_on = 1
        /\ entries[pk].publish_date = 2

\* C7: Blog.save of a record without id while exactly one Blog row exists
\* raises and leaves the table unchanged; Blog.save of an existing row goes
\* on to the write, which stores the new field values.
C7_SingletonGuard ==
    [][\A p \in Procs :
          LET started == bprocs[p].pc # "write" /\ bprocs'[p] # bprocs[p]
              written == bprocs[p].pc = "write" /\ bprocs'[p] # bprocs[p]
          IN /\ (started /\ bprocs'[p].id = NoneVal /\ Cardinality(DOMAIN blogs) = 1) =>
                    bprocs'[p].pc = "raised" /\ blogs' = blogs
             /\ (started /\ bprocs'[p].id \in DOMAIN blogs) => bprocs'[p].pc = "write"
             /\ (written /\ bprocs[p].id \in DOMAIN blogs) =>
                    /\ bprocs'[p].pc = "saved"
                    /\ DOMAIN blogs' = DOMAIN blogs
                    /\ blogs'[bprocs[p].id] = bprocs[p].obj]_vars

C7_Witness ==
    \E p, q \in Procs :
        /\ bprocs[p].pc = "raised"
        /\ bprocs[q].pc = "saved"
        /\ DOMAIN blogs = {1}
        /\ \E f \in BlogForms : f # blogs[1]
        /\ blogs[1] = bprocs[q].obj
        /\ blogs[1] # bprocs[p].obj

\* C8: at most one Blog row exists in every reachable state.
C8_AtMostOneBlog == Cardinality(DOMAIN blogs) <= 1

\* C9 (as stated): get_num_comments is the number of comments of the entry
\* with is_spam false, whatever their is_public.
C9_CountsAllNonSpam ==
    \A e \in DOMAIN entries :
        get_num_comments(comments, e) =
            Cardinality({pk \in DOMAIN comments :
                            comments[pk].comment_for = e /\ ~comments[pk].is_spam})

\* C9 (amended): get_num_comments is the number of comments of the entry
\* with is_spam false and is_public True.
C9_CountsPublicNonSpam ==
    \A e \in DOMAIN entries :
        get_num_comments(comments, e) =
            Cardinality({pk \in DOMAIN comments :
                            /\ comments[pk].comment_for = e
                            /\ ~comments[pk].is_spam
                            /\ comments[pk].is_public = "True"})

C9_Witness ==
    \E e \in DOMAIN entries :
        /\ get_num_comments(comments, e) >= 1
        /\ \E pk \in DOMAIN comments :
              /\ comments[pk].comment_for = e
              /\ ~comments[pk].is_spam
              /\ comments[pk].is_public = "None"

Range(r) == {r[k] : k \in 1..Len(r)}

\* C10 (as stated): get_recent_comments is the non-spam comments of the entry
\* created in the last 24 hours, in ascending order of created_on.
C10_RecentOldestFirst ==
    \A e \in DOMAIN entries :
        LET r == get_recent_comments(comments, now, e)
        IN /\ Range(r) = {pk \in DOMAIN comments :
                             /\ comments[pk].comment_for = e
                             /\ ~comments[pk].is_spam
                             /\ comments[pk].created_on > now - TicksPerDay}
           /\ \A i, j \in 1..Len(r) :
                 i < j => comments[r[i]].created_on <= comments[r[j]].created_on

\* C10 (amended): get_recent_comments is the non-spam comments of the entry
\* with is_public True created in the last 24 hours, each once, in descending
\* order of created_on.
C10_RecentNewestFirst ==
    \A e \in DOMAIN entries :
        LET r == get_recent_comments(comments, now, e)
            expected == {pk \in DOMAIN comments :
                            /\ comments[pk].comment_for = e
                            /\ ~comments[pk].is_spam
                            /\ comments[pk].is_public = "True"
                            /\ comments[pk].created_on > now - TicksPerDay}
        IN /\ Range(r) = expected
           /\ Len(r) = Cardinality(expected)
           /\ \A i, j \in 1..Len(r) :
                 i < j => comments[r[i]].created_on >= comments[r[j]].created_on

C10_Witness ==
    \E e \in DOMAIN entries :
        LET r == get_recent_comments(comments, now, e)
        IN /\ Len(r) = 2
           /\ comments[r[1]].created_on > comments[r[2]].created_on
           /\ \E pk \in DOMAIN comments :
                 /\ comments[pk].comment_for = e
                 /\ ~comments[pk].is_spam
                 /\ comments[pk].created_on <= now - TicksPerDay

====
